---- MODULE Spec2Model ----
(***************************************************************************)
(* Model of the chunking engine (src/parsers/pdf_parser.py) and of the     *)
(* hybrid retriever (src/retriever.py).                                    *)
(*                                                                         *)
(* Text is a sequence of one-character strings.  A token is the piece of   *)
(* text it stands for (a sequence of one or two characters), as in a       *)
(* byte-pair encoding with a single merge rule.                            *)
(***************************************************************************)
EXTENDS Integers, Sequences, FiniteSets, TLC

VARIABLES split, seg, parsed, collection, srch, ix, veo, expl

vars == <<split, seg, parsed, collection, srch, ix, veo, expl>>

(***************************************************************************)
(* Bounds of the model.                                                    *)
(***************************************************************************)
MaxTextLen == 6
MaxChunkSize == 3
MaxIter == 7
MaxLongLen == 361
MaxLines == 3
MaxPages == 3
MaxFrags == 4
MaxCorpus == 3
MaxTopK == 2
MaxSim == 1
MaxCands == 4
MaxFileLen == 65
MaxPolls == 36
MaxScriptLines == 2

(***************************************************************************)
(* Program constants.                                                      *)
(***************************************************************************)
CHUNK_SIZE == 350
CHUNK_OVERLAP == 20

\* Optional values: None, or Some(v).
None == <<>>
Some(v) == <<v>>

Min(a, b) == IF a < b THEN a ELSE b
Max(a, b) == IF a > b THEN a ELSE b

Rep(c, n) == [i \in 1..n |-> c]

(***************************************************************************)
(* Python slicing s[lo:hi] of a list with 0-based, possibly negative       *)
(* bounds.                                                                 *)
(***************************************************************************)
PyIndex(i, n) == IF i < 0 THEN Max(i + n, 0) ELSE Min(i, n)

PySlice(s, lo, hi) == SubSeq(s, PyIndex(lo, Len(s)) + 1, PyIndex(hi, Len(s)))

(***************************************************************************)
(* The tokenizer: ENCODING.encode and ENCODING.decode.  One merge rule,    *)
(* "h" followed by "e" is one token; every other character is a token of   *)
(* its own.  Both operators split their argument in halves so that long    *)
(* texts are handled.                                                      *)
(***************************************************************************)
MergePair == <<"h", "e">>

RECURSIVE Encode(_)
Encode(t) ==
    IF Len(t) = 0 THEN <<>>
    ELSE IF Len(t) = 1 THEN <<t>>
    ELSE IF Len(t) = 2
         THEN IF t = MergePair THEN <<t>> ELSE << <<t[1]>>, <<t[2]>> >>
    ELSE LET m0 == Len(t) \div 2
             m  == IF <<t[m0], t[m0 + 1]>> = MergePair THEN m0 + 1 ELSE m0
         IN  Encode(SubSeq(t, 1, m)) \o Encode(SubSeq(t, m + 1, Len(t)))

\* Concatenation of a sequence of sequences.
RECURSIVE Flatten(_)
Flatten(ss) ==
    IF Len(ss) = 0 THEN <<>>
    ELSE IF Len(ss) = 1 THEN ss[1]
    ELSE LET m == Len(ss) \div 2
         IN  Flatten(SubSeq(ss, 1, m)) \o Flatten(SubSeq(ss, m + 1, Len(ss)))

Decode(toks) == Flatten(toks)

count_tokens(text) == Len(Encode(text))

(***************************************************************************)
(* split_into_chunks.  The frame of a call holds the arguments, the locals *)
(* and the position; windows records the [start, end) pair of every        *)
(* iteration next to the chunk it appended.                                *)
(***************************************************************************)
SegIdle ==
    [pc |-> "idle", page_num |-> 0, sections |-> <<>>, current_section |-> None,
     current_chapter |-> None, section_start_page |-> None, next |-> 1,
     leaf_chunks |-> <<>>, stream |-> <<>>]

ParseIdle == [pc |-> "idle", query |-> <<>>, result |-> None]

\* The frame of a run of indexer.main, with the collections of the store
\* directory: exists and store are the collection named COLLECTION_NAME, prior
\* is what it held when the run started, batches the sizes of the batches
\* added.
IndexIdle ==
    [pc |-> "idle", exists |-> FALSE, store |-> <<>>, prior |-> <<>>,
     chunks |-> <<>>, ids |-> <<>>, documents |-> <<>>, metadatas |-> <<>>,
     start |-> 0, batches |-> <<>>]

\* The frame of a call of create_video: the state of the remote operation
\* (done, response), the number of polls and the dictionary returned.
VeoIdle ==
    [pc |-> "idle", wait_for_completion |-> FALSE, done |-> FALSE,
     response |-> FALSE, polls |-> 0, result |-> None, raised |-> FALSE]

\* The frame of a call of generate_script.
ExplainIdle ==
    [pc |-> "idle", chunks |-> <<>>, primary_section |-> <<>>, script |-> <<>>,
     calls |-> 0, narration_count |-> 0, failed |-> FALSE, result |-> None,
     raised |-> FALSE]

\* The frame of a call of search.  Next to the arguments and locals it records
\* the path taken, the number of calls made to the embedding provider, whether
\* one of them failed, the answers of the provider (provider) and the result
\* of an earlier call with the same arguments (first).
SearchIdle ==
    [pc |-> "idle", query |-> <<>>, top_k |-> 0, lambda_param |-> <<1, 2>>,
     metadata_filter |-> None, path |-> "", chunks |-> <<>>, selected |-> <<>>,
     remaining |-> <<>>, result |-> <<>>, embed_calls |-> 0, failed |-> FALSE,
     provider |-> None, first |-> None]

SplitIdle ==
    [pc |-> "idle", text |-> <<>>, chunk_size |-> 0, overlap |-> 0,
     tokens |-> <<>>, chunks |-> <<>>, windows |-> <<>>, start |-> 0]

SplitEnter(text, chunk_size, overlap) ==
    [pc |-> "loop", text |-> text, chunk_size |-> chunk_size,
     overlap |-> overlap, tokens |-> Encode(text), chunks |-> <<>>,
     windows |-> <<>>, start |-> 0]

\* Variants of the loop body a slip in the code would produce.
SplitIterate_NoOverlap(f) ==
    LET N   == Len(f.tokens)
        end == Min(f.start + f.chunk_size, N)
        g   == [f EXCEPT !.chunks = Append(@, Decode(PySlice(f.tokens, f.start, end))),
                         !.windows = Append(@, <<f.start, end>>)]
    IN  IF end = N THEN [g EXCEPT !.pc = "returned"]
        ELSE [g EXCEPT !.start = f.start + f.chunk_size]

SplitIterate_DropTail(f) ==
    LET N   == Len(f.tokens)
        end == Min(f.start + f.chunk_size, N)
        g   == [f EXCEPT !.chunks = Append(@, Decode(PySlice(f.tokens, f.start, end))),
                         !.windows = Append(@, <<f.start, end>>)]
    IN  IF end = N \/ f.start + f.chunk_size - f.overlap + f.chunk_size > N
        THEN [g EXCEPT !.pc = "returned"]
        ELSE [g EXCEPT !.start = f.start + f.chunk_size - f.overlap]

SplitIterate_StepOne(f) ==
    LET N   == Len(f.tokens)
        end == Min(f.start + f.chunk_size, N)
        g   == [f EXCEPT !.chunks = Append(@, Decode(PySlice(f.tokens, f.start, end))),
                         !.windows = Append(@, <<f.start, end>>)]
    IN  IF end = N THEN [g EXCEPT !.pc = "returned"]
        ELSE [g EXCEPT !.start = f.start + f.chunk_size - f.overlap + 1]

\* One pass through the body of the while loop (the loop test has passed).
SplitIterate(f) ==
    LET N   == Len(f.tokens)
        end == Min(f.start + f.chunk_size, N)
        g   == [f EXCEPT !.chunks = Append(@, Decode(PySlice(f.tokens, f.start, end))),
                         !.windows = Append(@, <<f.start, end>>)]
    IN  IF end = N THEN [g EXCEPT !.pc = "returned"]
        ELSE [g EXCEPT !.start = f.start + f.chunk_size - f.overlap]

SplitTest(f) == f.start < Len(f.tokens)

\* The call run to its return, for callers of split_into_chunks.
RECURSIVE SplitRun(_)
SplitRun(f) ==
    IF f.pc # "loop" THEN f
    ELSE IF SplitTest(f) THEN SplitRun(SplitIterate(f))
    ELSE [f EXCEPT !.pc = "returned"]

split_into_chunks(text, chunk_size, overlap) ==
    SplitRun(SplitEnter(text, chunk_size, overlap)).chunks

RECURSIVE TextsUpTo(_)
TextsUpTo(n) ==
    IF n = 0 THEN {<<>>}
    ELSE LET S == TextsUpTo(n - 1)
         IN  S \cup {Append(t, c) : t \in S, c \in {"h", "e"}}

Texts == TextsUpTo(MaxTextLen)

LongTexts ==
    {Rep("e", n) : n \in 359..MaxLongLen} \cup {<<"h">> \o Rep("e", 360)}

SplitCall ==
    /\ split.pc = "idle"
    /\ \E text \in Texts, chunk_size \in 0..MaxChunkSize, overlap \in 0..MaxChunkSize :
          split' = SplitEnter(text, chunk_size, overlap)
    /\ UNCHANGED <<seg, parsed, collection, srch, ix, veo, expl>>

SplitCallDefault ==
    /\ split.pc = "idle"
    /\ \E text \in LongTexts : split' = SplitEnter(text, CHUNK_SIZE, CHUNK_OVERLAP)
    /\ UNCHANGED <<seg, parsed, collection, srch, ix, veo, expl>>

SplitLoopBody ==
    /\ split.pc = "loop"
    /\ SplitTest(split)
    /\ Len(split.chunks) < MaxIter
    /\ split' = SplitIterate(split)
    /\ UNCHANGED <<seg, parsed, collection, srch, ix, veo, expl>>

SplitLoopExit ==
    /\ split.pc = "loop"
    /\ ~SplitTest(split)
    /\ split' = [split EXCEPT !.pc = "returned"]
    /\ UNCHANGED <<seg, parsed, collection, srch, ix, veo, expl>>

InitWin ==
    /\ split = SplitIdle
    /\ seg = SegIdle
    /\ parsed = ParseIdle
    /\ collection = <<>>
    /\ srch = SearchIdle
    /\ ix = IndexIdle
    /\ veo = VeoIdle
    /\ expl = ExplainIdle

NextWin == SplitCall \/ SplitCallDefault \/ SplitLoopBody \/ SplitLoopExit

SpecWin == InitWin /\ [][NextWin]_vars

(***************************************************************************)
(* Properties of split_into_chunks.                                        *)
(***************************************************************************)
ValidConfig(f) == f.chunk_size > f.overlap /\ f.overlap >= 0 /\ f.chunk_size > 0

\* The windows the contract prescribes for N tokens.
ExpectedWindows(N, chunk_size, overlap) ==
    IF N = 0 THEN <<>>
    ELSE LET step == chunk_size - overlap
             \* the least k >= 1 with (k - 1) * step + chunk_size >= N
             K == IF N <= chunk_size THEN 1
                  ELSE 1 + (N - chunk_size + step - 1) \div step
         IN  [k \in 1..K |-> <<(k - 1) * step, Min((k - 1) * step + chunk_size, N)>>]

IsPrefix(s, t) == Len(s) <= Len(t) /\ s = SubSeq(t, 1, Len(s))

\* C2: with overlap >= chunk_size the call fails with a configuration error:
\* it never returns a chunk list and never makes an iteration whose window
\* does not start after the previous one.
C2_InvalidConfigFails ==
    (split.pc # "idle" /\ split.chunk_size - split.overlap <= 0) =>
        /\ split.pc # "returned"
        /\ \A k \in 1..(Len(split.windows) - 1) :
              split.windows[k + 1][1] > split.windows[k][1]

\* C3: for a valid configuration the call terminates and emits, in increasing
\* start order, exactly the windows [k*(chunk_size-overlap),
\* min(start+chunk_size, N)) up to the first one that ends at N; the last
\* window ends at N and N = 0 gives the empty list.
C3_WindowsAsPrescribed ==
    (split.pc # "idle" /\ ValidConfig(split)) =>
        LET N   == Len(split.tokens)
            exp == ExpectedWindows(N, split.chunk_size, split.overlap)
        IN  /\ IsPrefix(split.windows, exp)
            /\ Len(split.chunks) = Len(split.windows)
            /\ \A k \in 1..Len(split.windows) :
                  split.chunks[k] =
                      Decode(SubSeq(split.tokens, split.windows[k][1] + 1,
                                    split.windows[k][2]))
            /\ split.pc = "loop" =>
                  /\ Len(split.windows) < Len(exp) \/ N = 0
                  /\ Len(split.chunks) < MaxIter
                  /\ split.start = Len(split.windows) * (split.chunk_size - split.overlap)
            /\ split.pc = "returned" =>
                  /\ split.windows = exp
                  /\ N = 0 => split.chunks = <<>>
                  /\ N > 0 => split.windows[Len(split.windows)][2] = N

C3_Witness ==
    /\ split.pc = "returned"
    /\ ValidConfig(split)
    /\ split.overlap > 0
    /\ Len(split.chunks) >= 3
    /\ count_tokens(split.chunks[Len(split.chunks)]) < split.chunk_size

\* C4: for a valid configuration, the first chunk_size - overlap tokens of
\* every chunk but the last, followed by the last chunk whole, concatenate to
\* the token sequence of the text, and decode to the text.
KeptTokens(f) ==
    LET m == Len(f.chunks)
    IN  Flatten([k \in 1..m |->
                    IF k < m
                    THEN SubSeq(Encode(f.chunks[k]), 1, f.chunk_size - f.overlap)
                    ELSE Encode(f.chunks[k])])

DefaultCallOn360 ==
    /\ split.pc = "returned"
    /\ split.chunk_size = 350
    /\ split.overlap = 20
    /\ Len(split.tokens) = 360

C5_SecondChunkOfTen ==
    DefaultCallOn360 =>
        /\ Len(split.chunks) = 2
        /\ split.windows[1][1] = 0
        /\ count_tokens(split.chunks[1]) = 350
        /\ count_tokens(split.chunks[2]) = 10

\* C5 amended: the second chunk holds the 30 tokens 330 to 359; its first 20
\* tokens are the last 20 tokens of the first chunk (tokens 330 to 349).
C5_SecondChunkOfThirty ==
    DefaultCallOn360 =>
        /\ Len(split.chunks) = 2
        /\ split.windows = << <<0, 350>>, <<330, 360>> >>
        /\ count_tokens(split.chunks[1]) = 350
        /\ count_tokens(split.chunks[2]) = 30
        /\ SubSeq(Encode(split.chunks[1]), 331, 350) =
               SubSeq(Encode(split.chunks[2]), 1, 20)
        /\ SubSeq(Encode(split.chunks[2]), 1, 20) = SubSeq(split.tokens, 331, 350)

C5_Witness == DefaultCallOn360 /\ Len(split.tokens) < Len(split.text)

(***************************************************************************)
(* Characters, line.strip() and the two header patterns.                   *)
(***************************************************************************)
Digits == <<"0", "1", "2", "3", "4", "5", "6", "7", "8", "9">>

IsDigit(c) == \E d \in 1..10 : Digits[d] = c

DigitVal(c) == (CHOOSE d \in 1..10 : Digits[d] = c) - 1

IsSpace(c) == c \in {" ", "\t", "\n"}

\* Length of the longest run of digits of t that starts at index i.
RECURSIVE DigitRun(_, _)
DigitRun(t, i) ==
    IF i <= Len(t) /\ IsDigit(t[i]) THEN 1 + DigitRun(t, i + 1) ELSE 0

\* int() of a string of digits.
RECURSIVE ParseInt(_)
ParseInt(ds) ==
    IF Len(ds) = 0 THEN 0
    ELSE 10 * ParseInt(SubSeq(ds, 1, Len(ds) - 1)) + DigitVal(ds[Len(ds)])

\* Number of whitespace characters of t from index i on (dir = 1) or from
\* index i back (dir = -1).
RECURSIVE SpaceRun(_, _, _)
SpaceRun(t, i, dir) ==
    IF i >= 1 /\ i <= Len(t) /\ IsSpace(t[i]) THEN 1 + SpaceRun(t, i + dir, dir) ELSE 0

Strip(t) ==
    LET lead == SpaceRun(t, 1, 1)
    IN  IF lead = Len(t) THEN <<>>
        ELSE SubSeq(t, lead + 1, Len(t) - SpaceRun(t, Len(t), -1))

HasPrefix(t, p) == Len(t) >= Len(p) /\ SubSeq(t, 1, Len(p)) = p

\* SECTION_HEADER_PATTERN.match(t): None, or the two groups of the match.
SectionHeaderMatch(t) ==
    LET d1 == DigitRun(t, 1)
        d2 == DigitRun(t, d1 + 2)
    IN  IF /\ d1 >= 1
           /\ Len(t) >= d1 + 1 /\ t[d1 + 1] = "."
           /\ d2 >= 1
           /\ Len(t) >= d1 + d2 + 3 /\ t[d1 + d2 + 2] = " "
        THEN Some([section |-> SubSeq(t, 1, d1 + 1 + d2),
                   title   |-> SubSeq(t, d1 + d2 + 3, Len(t))])
        ELSE None

\* CHAPTER_HEADER_PATTERN.match(t): None, or int(group(1)).
ChapterWord == <<"C", "H", "A", "P", "T", "E", "R", " ">>

ChapterHeaderMatch(t) ==
    IF HasPrefix(t, ChapterWord) /\ DigitRun(t, 9) >= 1
    THEN Some(ParseInt(SubSeq(t, 9, 8 + DigitRun(t, 9))))
    ELSE None

(***************************************************************************)
(* extract_hierarchical_chunks.  The document is read line by line; the    *)
(* lines a page can hold are drawn from Lines.  stream records the         *)
(* (page index, line number in Lines) pairs read so far.                   *)
(***************************************************************************)
Lines ==
    << <<"C", "H", "A", "P", "T", "E", "R", " ", "2">>, <<"C", "H", "A", "P", "T", "E", "R", " ", "1", "3", "x">>, <<"1", ".", "1", " ", "I", "n">>, <<" ", "2", ".", "1", "0", " ", "h", "e", " ">>,
       <<"h", "e">>, <<"1", ".", "2">>,
       Rep("e", 360) >>

SegStart == [SegIdle EXCEPT !.pc = "scan"]

\* Variants of the loop body a slip in the code would produce.
ScanLine_EndInclusive(s, line) ==
    LET chapter_match == ChapterHeaderMatch(Strip(line))
        chapter == IF chapter_match # None THEN chapter_match ELSE s.current_chapter
        section_match == SectionHeaderMatch(Strip(line))
        closed == IF section_match # None /\ s.current_section # None
                  THEN Append(s.sections,
                              [s.current_section[1] EXCEPT !.end_page = s.page_num + 1])
                  ELSE s.sections
        opened == IF section_match # None
                  THEN Some([chapter |-> chapter, section |-> section_match[1].section,
                             title |-> section_match[1].title, text |-> <<>>,
                             start_page |-> s.page_num + 1,
                             end_page |-> s.page_num + 1])
                  ELSE s.current_section
    IN  [s EXCEPT !.current_chapter = chapter,
                  !.sections = closed,
                  !.section_start_page =
                      IF section_match # None THEN Some(s.page_num + 1) ELSE @,
                  !.current_section =
                      IF opened # None
                      THEN Some([opened[1] EXCEPT !.text = @ \o line \o <<"\n">>])
                      ELSE None]

ScanLine_HeaderNotKept(s, line) ==
    LET chapter_match == ChapterHeaderMatch(Strip(line))
        chapter == IF chapter_match # None THEN chapter_match ELSE s.current_chapter
        section_match == SectionHeaderMatch(Strip(line))
        closed == IF section_match # None /\ s.current_section # None
                  THEN Append(s.sections,
                              [s.current_section[1] EXCEPT !.end_page = s.page_num])
                  ELSE s.sections
        opened == IF section_match # None
                  THEN Some([chapter |-> chapter, section |-> section_match[1].section,
                             title |-> section_match[1].title, text |-> <<>>,
                             start_page |-> s.page_num + 1,
                             end_page |-> s.page_num + 1])
                  ELSE s.current_section
    IN  [s EXCEPT !.current_chapter = chapter,
                  !.sections = closed,
                  !.section_start_page =
                      IF section_match # None THEN Some(s.page_num + 1) ELSE @,
                  !.current_section =
                      IF opened # None /\ section_match = None /\ chapter_match = None
                      THEN Some([opened[1] EXCEPT !.text = @ \o line \o <<"\n">>])
                      ELSE opened]

ScanLine_ChapterRetagsOpen(s, line) ==
    LET chapter_match == ChapterHeaderMatch(Strip(line))
        chapter == IF chapter_match # None THEN chapter_match ELSE s.current_chapter
        section_match == SectionHeaderMatch(Strip(line))
        closed == IF section_match # None /\ s.current_section # None
                  THEN Append(s.sections,
                              [s.current_section[1] EXCEPT !.end_page = s.page_num])
                  ELSE s.sections
        opened == IF section_match # None
                  THEN Some([chapter |-> chapter, section |-> section_match[1].section,
                             title |-> section_match[1].title, text |-> <<>>,
                             start_page |-> s.page_num + 1,
                             end_page |-> s.page_num + 1])
                  ELSE s.current_section
    IN  [s EXCEPT !.current_chapter = chapter,
                  !.sections = closed,
                  !.section_start_page =
                      IF section_match # None THEN Some(s.page_num + 1) ELSE @,
                  !.current_section =
                      IF opened # None
                      THEN Some([opened[1] EXCEPT !.text = @ \o line \o <<"\n">>,
                                                  !.chapter = chapter])
                      ELSE None]

\* The body of the loop over the lines of a page, for one line.
ScanLine(s, line) ==
    LET chapter_match == ChapterHeaderMatch(Strip(line))
        chapter == IF chapter_match # None THEN chapter_match ELSE s.current_chapter
        section_match == SectionHeaderMatch(Strip(line))
        closed == IF section_match # None /\ s.current_section # None
                  THEN Append(s.sections,
                              [s.current_section[1] EXCEPT !.end_page = s.page_num])
                  ELSE s.sections
        opened == IF section_match # None
                  THEN Some([chapter |-> chapter, section |-> section_match[1].section,
                             title |-> section_match[1].title, text |-> <<>>,
                             start_page |-> s.page_num + 1,
                             end_page |-> s.page_num + 1])
                  ELSE s.current_section
    IN  [s EXCEPT !.current_chapter = chapter,
                  !.sections = closed,
                  !.section_start_page =
                      IF section_match # None THEN Some(s.page_num + 1) ELSE @,
                  !.current_section =
                      IF opened # None
                      THEN Some([opened[1] EXCEPT !.text = @ \o line \o <<"\n">>])
                      ELSE None]

\* "Save last section", after the loop over the pages.
ScanEnd(s) ==
    [s EXCEPT !.pc = "split",
              !.sections = IF s.current_section # None
                           THEN Append(@, s.current_section[1]) ELSE @]

\* A variant of the chunk records a slip in the code would produce.
LeafChunks_RunningIndex(section, base) ==
    LET chunks == split_into_chunks(section.text, CHUNK_SIZE, CHUNK_OVERLAP)
    IN  [k \in 1..Len(chunks) |->
            [chapter |-> section.chapter, section |-> section.section,
             title |-> section.title, chunk_index |-> base + k - 1,
             text |-> chunks[k], start_page |-> section.start_page,
             end_page |-> section.end_page]]

\* The records appended to leaf_chunks for one section; base is the number
\* of records appended before.
LeafChunks(section, base) ==
    LET chunks == split_into_chunks(section.text, CHUNK_SIZE, CHUNK_OVERLAP)
    IN  [k \in 1..Len(chunks) |->
            [chapter |-> section.chapter, section |-> section.section,
             title |-> section.title, chunk_index |-> k - 1,
             text |-> chunks[k], start_page |-> section.start_page,
             end_page |-> section.end_page]]

SegReadLine ==
    /\ seg.pc = "scan"
    /\ Len(seg.stream) < MaxLines
    /\ \E i \in 1..Len(Lines) :
          seg' = [ScanLine(seg, Lines[i]) EXCEPT
                     !.stream = Append(@, <<seg.page_num, i>>)]
    /\ UNCHANGED <<split, parsed, collection, srch, ix, veo, expl>>

SegNextPage ==
    /\ seg.pc = "scan"
    /\ seg.page_num < MaxPages - 1
    /\ seg' = [seg EXCEPT !.page_num = @ + 1]
    /\ UNCHANGED <<split, parsed, collection, srch, ix, veo, expl>>

SegEndOfInput ==
    /\ seg.pc = "scan"
    /\ seg' = ScanEnd(seg)
    /\ UNCHANGED <<split, parsed, collection, srch, ix, veo, expl>>

SegSplitSection ==
    /\ seg.pc = "split"
    /\ seg.next <= Len(seg.sections)
    /\ seg' = [seg EXCEPT
                  !.leaf_chunks =
                      @ \o LeafChunks(seg.sections[seg.next], Len(seg.leaf_chunks)),
                  !.next = @ + 1]
    /\ UNCHANGED <<split, parsed, collection, srch, ix, veo, expl>>

SegReturn ==
    /\ seg.pc = "split"
    /\ seg.next > Len(seg.sections)
    /\ seg' = [seg EXCEPT !.pc = "returned"]
    /\ UNCHANGED <<split, parsed, collection, srch, ix, veo, expl>>

InitSeg ==
    /\ split = SplitIdle
    /\ seg = SegStart
    /\ parsed = ParseIdle
    /\ collection = <<>>
    /\ srch = SearchIdle
    /\ ix = IndexIdle
    /\ veo = VeoIdle
    /\ expl = ExplainIdle

NextSeg ==
    SegReadLine \/ SegNextPage \/ SegEndOfInput \/ SegSplitSection \/ SegReturn

SpecSeg == InitSeg /\ [][NextSeg]_vars

(***************************************************************************)
(* Properties of extract_hierarchical_chunks, stated over the lines read.  *)
(***************************************************************************)
StreamPage(k) == seg.stream[k][1]
StreamLine(k) == Lines[seg.stream[k][2]]

SortedSeq(S) ==
    [i \in 1..Cardinality(S) |-> CHOOSE x \in S : Cardinality({y \in S : y <= x}) = i]

\* Positions in the stream of the section-header lines, in order.
HeaderPos ==
    SortedSeq({k \in 1..Len(seg.stream) : SectionHeaderMatch(Strip(StreamLine(k))) # None})

ChapterPos ==
    {k \in 1..Len(seg.stream) : ChapterHeaderMatch(Strip(StreamLine(k))) # None}

\* The sections built so far, closed or open, in order.
Built == IF seg.pc = "scan" THEN seg.sections \o seg.current_section ELSE seg.sections

\* Position of the last line of the j-th section.
LastLineOf(H, j) == IF j < Len(H) THEN H[j + 1] - 1 ELSE Len(seg.stream)

LinesText(a, b) == Flatten([i \in 1..(b - a + 1) |-> StreamLine(a + i - 1) \o <<"\n">>])

\* C6: a section header on page index p closes the open section with
\* end_page = p and appends it, and opens a section with start_page =
\* end_page = p + 1; the section open at end of input is appended with
\* end_page = start_page; one section per section-header line, in order.
C6_PageBookkeeping ==
    seg.pc # "idle" =>
        LET H == HeaderPos
            B == Built
        IN  /\ Len(B) = Len(H)
            /\ seg.pc = "scan" =>
                  /\ Len(seg.sections) = Max(Len(H) - 1, 0)
                  /\ (seg.current_section # None) = (Len(H) > 0)
            /\ \A j \in 1..Len(B) :
                  LET m == SectionHeaderMatch(Strip(StreamLine(H[j])))[1]
                  IN  /\ B[j].section = m.section
                      /\ B[j].title = m.title
                      /\ B[j].start_page = StreamPage(H[j]) + 1
                      /\ B[j].end_page =
                            IF j < Len(H) THEN StreamPage(H[j + 1])
                            ELSE B[j].start_page

C6_Witness ==
    /\ seg.pc = "returned"
    /\ Len(seg.sections) >= 2
    /\ seg.sections[1].start_page = 1
    /\ seg.sections[1].end_page = 1
    /\ seg.sections[2].start_page = 2
    /\ seg.sections[2].end_page = 2

\* C7: the text of a section is the newline-terminated concatenation of the
\* lines from its header line up to the line before the next section header;
\* together the texts are all lines from the first section header onward;
\* lines before it are in no section; no section header gives no section and
\* no chunk.
C7_TextPartition ==
    seg.pc # "idle" =>
        LET H == HeaderPos
            B == Built
        IN  /\ \A j \in 1..Len(B) :
                  j <= Len(H) => B[j].text = LinesText(H[j], LastLineOf(H, j))
            /\ Len(H) > 0 =>
                  Flatten([j \in 1..Len(B) |-> B[j].text]) =
                      LinesText(H[1], Len(seg.stream))
            /\ Len(H) = 0 =>
                  /\ B = <<>>
                  /\ seg.leaf_chunks = <<>>

C7_Witness ==
    /\ seg.pc = "returned"
    /\ Len(seg.sections) = 1
    /\ HeaderPos[1] = 2
    /\ 3 \in ChapterPos

\* C8: the chapter of a section is the integer of the last chapter header
\* read before the section's header line, None when there is none; a chapter
\* header read while the section is open leaves it unchanged.
ChapterBefore(k) ==
    LET C == {i \in ChapterPos : i < k}
    IN  IF C = {} THEN None
        ELSE ChapterHeaderMatch(Strip(StreamLine(CHOOSE i \in C : \A j \in C : j <= i)))

C8_StickyChapter ==
    seg.pc # "idle" =>
        LET H == HeaderPos
            B == Built
        IN  \A j \in 1..Len(B) :
                j <= Len(H) => B[j].chapter = ChapterBefore(H[j])

C8_Witness ==
    /\ seg.pc = "returned"
    /\ Len(seg.sections) = 2
    /\ seg.sections[1].chapter = None
    /\ seg.sections[2].chapter = Some(13)
    /\ \E k \in ChapterPos : HeaderPos[1] < k /\ k < HeaderPos[2]

\* C9: leaf_chunks is, section after section in document order, the section's
\* windows in window order, each with the section's chapter, section, title,
\* start_page and end_page and with chunk_index 0, 1, ..., m-1.
ExpectedLeafChunks(section) ==
    LET toks == Encode(section.text)
        w    == ExpectedWindows(Len(toks), CHUNK_SIZE, CHUNK_OVERLAP)
    IN  [k \in 1..Len(w) |->
            [chapter |-> section.chapter, section |-> section.section,
             title |-> section.title, chunk_index |-> k - 1,
             text |-> Decode(SubSeq(toks, w[k][1] + 1, w[k][2])),
             start_page |-> section.start_page, end_page |-> section.end_page]]

C9_ChunksPerSection ==
    seg.pc \in {"split", "returned"} =>
        /\ seg.leaf_chunks =
              Flatten([j \in 1..(seg.next - 1) |-> ExpectedLeafChunks(seg.sections[j])])
        /\ \A i \in 1..Len(seg.leaf_chunks) :
              \/ seg.leaf_chunks[i].chunk_index = 0
              \/ /\ i > 1
                 /\ seg.leaf_chunks[i].chunk_index = seg.leaf_chunks[i - 1].chunk_index + 1
                 /\ [seg.leaf_chunks[i] EXCEPT !.chunk_index = 0, !.text = <<>>] =
                        [seg.leaf_chunks[i - 1] EXCEPT !.chunk_index = 0, !.text = <<>>]
        /\ seg.pc = "returned" => seg.next = Len(seg.sections) + 1

C9_Witness ==
    /\ seg.pc = "returned"
    /\ Len(seg.sections) = 2
    /\ Len(seg.leaf_chunks) = 3
    /\ seg.leaf_chunks[2].chunk_index = 1
    /\ seg.leaf_chunks[3].chunk_index = 0
    /\ seg.leaf_chunks[3].section # seg.leaf_chunks[2].section

(***************************************************************************)
(* HybridRetriever._parse_metadata_query.                                  *)
(***************************************************************************)
UpperCase ==
    <<"A", "B", "C", "D", "E", "F", "G", "H", "I", "J", "K", "L", "M",
      "N", "O", "P", "Q", "R", "S", "T", "U", "V", "W", "X", "Y", "Z">>

LowerCase ==
    <<"a", "b", "c", "d", "e", "f", "g", "h", "i", "j", "k", "l", "m",
      "n", "o", "p", "q", "r", "s", "t", "u", "v", "w", "x", "y", "z">>

\* str.lower()
Lower(t) ==
    [i \in 1..Len(t) |->
        IF \E k \in 1..26 : UpperCase[k] = t[i]
        THEN LowerCase[CHOOSE k \in 1..26 : UpperCase[k] = t[i]]
        ELSE t[i]]

HasWordAt(t, p, w) == Len(t) >= p + Len(w) - 1 /\ SubSeq(t, p, p + Len(w) - 1) = w

\* \d+\.\d+ matched at index q: the index of its last character, 0 if none.
DottedEnd(t, q) ==
    LET d1 == DigitRun(t, q)
        d2 == DigitRun(t, q + d1 + 1)
    IN  IF d1 >= 1 /\ Len(t) >= q + d1 /\ t[q + d1] = "." /\ d2 >= 1
        THEN q + d1 + d2
        ELSE 0

SectionWord == <<"s", "e", "c", "t", "i", "o", "n">>
ChapterLower == <<"c", "h", "a", "p", "t", "e", "r">>

\* (?:section\s*)?(\d+\.\d+) matched at index p: None, or group(1).
SectionPatternAt(t, p) ==
    LET q == p + Len(SectionWord) + SpaceRun(t, p + Len(SectionWord), 1)
    IN  IF HasWordAt(t, p, SectionWord) /\ DottedEnd(t, q) > 0
        THEN Some(SubSeq(t, q, DottedEnd(t, q)))
        ELSE IF DottedEnd(t, p) > 0 THEN Some(SubSeq(t, p, DottedEnd(t, p)))
        ELSE None

\* chapter\s*(\d+) matched at index p: None, or group(1).
ChapterPatternAt(t, p) ==
    LET q == p + Len(ChapterLower) + SpaceRun(t, p + Len(ChapterLower), 1)
    IN  IF HasWordAt(t, p, ChapterLower) /\ DigitRun(t, q) >= 1
        THEN Some(SubSeq(t, q, q + DigitRun(t, q) - 1))
        ELSE None

\* re.search: the match at the least index where the pattern matches.
RECURSIVE SectionSearchFrom(_, _)
SectionSearchFrom(t, p) ==
    IF p > Len(t) THEN None
    ELSE IF SectionPatternAt(t, p) # None THEN SectionPatternAt(t, p)
    ELSE SectionSearchFrom(t, p + 1)

RECURSIVE ChapterSearchFrom(_, _)
ChapterSearchFrom(t, p) ==
    IF p > Len(t) THEN None
    ELSE IF ChapterPatternAt(t, p) # None THEN ChapterPatternAt(t, p)
    ELSE ChapterSearchFrom(t, p + 1)

\* A variant that a slip in the code would produce.
ParseMetadataQuery_ChapterFirst(query) ==
    LET query_lower   == Lower(query)
        section_match == SectionSearchFrom(query_lower, 1)
        chapter_match == ChapterSearchFrom(query_lower, 1)
    IN  IF chapter_match # None
        THEN Some([key |-> "chapter", value |-> Some(ParseInt(chapter_match[1]))])
        ELSE IF section_match # None
        THEN Some([key |-> "section", value |-> Some(section_match[1])])
        ELSE None

\* The filter is None or a one-entry dictionary, given by its key and value.
ParseMetadataQuery(query) ==
    LET query_lower   == Lower(query)
        section_match == SectionSearchFrom(query_lower, 1)
        chapter_match == ChapterSearchFrom(query_lower, 1)
    IN  IF section_match # None
        THEN Some([key |-> "section", value |-> Some(section_match[1])])
        ELSE IF chapter_match # None
        THEN Some([key |-> "chapter", value |-> Some(ParseInt(chapter_match[1]))])
        ELSE None

\* Queries are made of up to MaxFrags of these pieces.
Fragments ==
    { <<"C", "H", "a", "p", "t", "e", "r">>, <<"s", "e", "c", "t", "i", "o", "n">>, <<" ">>, <<"1">>, <<"2", "0">>, <<".">>, <<"x">> }

RECURSIVE QueriesUpTo(_)
QueriesUpTo(n) ==
    IF n = 0 THEN {<<>>}
    ELSE LET S == QueriesUpTo(n - 1)
         IN  S \cup {q \o f : q \in S, f \in Fragments}

ParseQuery ==
    /\ parsed.pc = "idle"
    /\ \E query \in QueriesUpTo(MaxFrags) :
          parsed' = [pc |-> "returned", query |-> query,
                     result |-> ParseMetadataQuery(query)]
    /\ UNCHANGED <<split, seg, collection, srch, ix, veo, expl>>

InitParse ==
    /\ split = SplitIdle
    /\ seg = SegIdle
    /\ parsed = ParseIdle
    /\ collection = <<>>
    /\ srch = SearchIdle
    /\ ix = IndexIdle
    /\ veo = VeoIdle
    /\ expl = ExplainIdle

NextParse == ParseQuery

SpecParse == InitParse /\ [][NextParse]_vars

(***************************************************************************)
(* Properties of _parse_metadata_query, stated over the occurrences of the *)
(* two shapes in the lower-cased query.                                    *)
(***************************************************************************)
AllDigits(t, a, b) == a <= b /\ \A i \in a..b : IsDigit(t[i])

\* t[a..b] is <digits>.<digits>
IsDotted(t, a, b) ==
    \E m \in (a + 1)..(b - 1) :
        t[m] = "." /\ AllDigits(t, a, m - 1) /\ AllDigits(t, m + 1, b)

\* t[a..b] is 'chapter', optional whitespace and digits; c is the first digit.
IsChapterRef(t, a, c, b) ==
    /\ HasWordAt(t, a, ChapterLower)
    /\ c >= a + Len(ChapterLower)
    /\ \A i \in (a + Len(ChapterLower))..(c - 1) : IsSpace(t[i])
    /\ AllDigits(t, c, b)

\* The first occurrence of a shape: least start, then greatest end.
FirstSpan(S) ==
    CHOOSE x \in S : \A y \in S : x[1] < y[1] \/ (x[1] = y[1] /\ x[2] >= y[2])

DottedSpans(t) ==
    {x \in (1..Len(t)) \X (1..Len(t)) : IsDotted(t, x[1], x[2])}

ChapterSpans(t) ==
    {x \in (1..Len(t)) \X (1..Len(t)) :
        \E c \in x[1]..x[2] : IsChapterRef(t, x[1], c, x[2])}

\* C10: a Section filter with the first <digits>.<digits> occurrence whenever
\* the query has one, also next to a chapter reference; a Chapter filter with
\* the integer value only when there is none and the query has 'chapter'
\* followed by digits, in any case of letters; no filter otherwise.
C10_SectionBeforeChapter ==
    parsed.pc = "returned" =>
        LET t  == Lower(parsed.query)
            DS == DottedSpans(t)
            CS == ChapterSpans(t)
        IN  /\ DS # {} =>
                  parsed.result =
                      Some([key |-> "section",
                            value |-> Some(SubSeq(t, FirstSpan(DS)[1], FirstSpan(DS)[2]))])
            /\ (DS = {} /\ CS # {}) =>
                  LET x == FirstSpan(CS)
                      c == CHOOSE c \in x[1]..x[2] : IsChapterRef(t, x[1], c, x[2])
                  IN  parsed.result =
                          Some([key |-> "chapter",
                                value |-> Some(ParseInt(SubSeq(t, c, x[2])))])
            /\ (DS = {} /\ CS = {}) => parsed.result = None

C10_Witness ==
    /\ parsed.pc = "returned"
    /\ parsed.query # Lower(parsed.query)
    /\ ChapterSpans(Lower(parsed.query)) # {}
    /\ DottedSpans(Lower(parsed.query)) # {}
    /\ parsed.result # None
    /\ parsed.result[1].key = "section"

(***************************************************************************)
(* HybridRetriever.search.  Scores are rationals <<numerator, denominator>>*)
(* with a positive denominator.  The dot product of the query embedding    *)
(* with the embedding of a document is one of 0/MaxSim .. MaxSim/MaxSim,   *)
(* chosen by the embedding provider, the same for equal documents.         *)
(***************************************************************************)
RLt(x, y) == x[1] * y[2] < y[1] * x[2]
RLe(x, y) == x[1] * y[2] <= y[1] * x[2]
RAdd(x, y) == <<x[1] * y[2] + y[1] * x[2], x[2] * y[2]>>
RSub(x, y) == <<x[1] * y[2] - y[1] * x[2], x[2] * y[2]>>
RMul(x, y) == <<x[1] * y[1], x[2] * y[2]>>
ROne == <<1, 1>>
RZero == <<0, 1>>

\* lambda_param: float = 0.5
DefaultLambda == <<1, 2>>

QueryCap == 10

ChunkTypes ==
    { [document |-> <<"a", " ", "b">>,  metadata |-> [chapter |-> Some(1), section |-> Some(<<"1", ".", "1">>)]],
      [document |-> <<"A", " ", "b", " ", "c">>, metadata |-> [chapter |-> Some(1), section |-> Some(<<"1", ".", "1">>)]],
      [document |-> <<"d">>,   metadata |-> [chapter |-> Some(2), section |-> Some(<<"2", ".", "1">>)]],
      [document |-> <<"a", " ", "b">>,  metadata |-> [chapter |-> None,    section |-> Some(<<"2", ".", "1">>)]],
      [document |-> <<"d">>,   metadata |-> [chapter |-> Some(1), section |-> Some(<<"1", ".", "1">>)]] }

RECURSIVE CollectionsUpTo(_)
CollectionsUpTo(n) ==
    IF n = 0 THEN {<<>>}
    ELSE LET S == CollectionsUpTo(n - 1)
         IN  S \cup {Append(c, r) : c \in S, r \in ChunkTypes}

SearchQueries == { <<"1", ".", "1">>, <<"C", "h", "a", "p", "t", "e", "r", " ", "2">>, <<"x">>, <<"9", ".", "9">> }

Documents(chunks) == {chunks[i].document : i \in 1..Len(chunks)}

Similarities(docs) == [docs -> {<<n, MaxSim>> : n \in 0..MaxSim}]

\* list.sort(key=score): stable, ascending.
RECURSIVE SortByScore(_)
SortByScore(chunks) ==
    IF Len(chunks) <= 1 THEN chunks
    ELSE LET front == SortByScore(SubSeq(chunks, 1, Len(chunks) - 1))
             last  == chunks[Len(chunks)]
             k     == Cardinality({i \in 1..Len(front) : RLe(front[i].score, last.score)})
         IN  SubSeq(front, 1, k) \o <<last>> \o SubSeq(front, k + 1, Len(front))

\* A variant that a slip in the code would produce.
MatchesFilter_MissingKeyMatches(metadata, metadata_filter) ==
    \/ metadata[metadata_filter.key] = None
    \/ metadata[metadata_filter.key] = metadata_filter.value

\* The test of one chunk's metadata against the filter dictionary.
MatchesFilter(metadata, metadata_filter) ==
    /\ metadata[metadata_filter.key] # None
    /\ metadata[metadata_filter.key] = metadata_filter.value

\* filtered_chunks of _metadata_filtered_search, in the order of collection.get.
FilteredChunks(coll, metadata_filter) ==
    LET hits == SelectSeq([i \in 1..Len(coll) |-> i],
                          LAMBDA i : MatchesFilter(coll[i].metadata, metadata_filter))
    IN  [k \in 1..Len(hits) |->
            [text |-> coll[hits[k]].document, metadata |-> coll[hits[k]].metadata,
             score |-> RZero]]

\* n_results of the query to the collection.
NResults(top_k) == Min(top_k * 2, QueryCap)

\* collection.query: the n_results nearest records, nearest first, with the
\* store's distance (squared L2 of unit vectors: 2 - 2 * dot); records at the
\* same distance in insertion order.
StoreQuery(coll, sim, n_results) ==
    LET all == SortByScore(
                   [i \in 1..Len(coll) |->
                       [text |-> coll[i].document, metadata |-> coll[i].metadata,
                        score |-> RMul(<<2, 1>>, RSub(ROne, sim[coll[i].document]))]])
    IN  SubSeq(all, 1, Min(n_results, Len(all)))

\* A variant that a slip in the code would produce.
RankChunks_ScoreIsSimilarity(chunks, sim) ==
    SortByScore([i \in 1..Len(chunks) |->
                    [chunks[i] EXCEPT !.score = sim[chunks[i].text]]])

\* The loop of _rank_by_similarity and the sort that follows it.
RankChunks(chunks, sim) ==
    SortByScore([i \in 1..Len(chunks) |->
                    [chunks[i] EXCEPT !.score = RSub(ROne, sim[chunks[i].text])]])

\* text.lower().split() as a set
WordSet(text) ==
    LET t == Lower(text)
    IN  {SubSeq(t, x[1], x[2]) : x \in
            {y \in (1..Len(t)) \X (1..Len(t)) :
                /\ y[1] <= y[2]
                /\ \A i \in y[1]..y[2] : ~IsSpace(t[i])
                /\ y[1] = 1 \/ IsSpace(t[y[1] - 1])
                /\ y[2] = Len(t) \/ IsSpace(t[y[2] + 1])}}

TextSimilarity(text1, text2) ==
    LET words1 == WordSet(text1)
        words2 == WordSet(text2)
    IN  IF words1 = {} \/ words2 = {} THEN RZero
        ELSE <<Cardinality(words1 \cap words2), Cardinality(words1 \cup words2)>>

\* max() of a non-empty list of rationals
RMax(xs) == xs[CHOOSE i \in 1..Len(xs) : \A j \in 1..Len(xs) : RLe(xs[j], xs[i])]

\* A variant that a slip in the code would produce.
MmrScore_WeightsSwapped(chunk, selected, lambda_param) ==
    LET relevance == RSub(ROne, chunk.score)
        diversity ==
            IF selected # <<>>
            THEN RSub(ROne, RMax(<<>> \o [k \in 1..Len(selected) |->
                                     TextSimilarity(chunk.text, selected[k].text)]))
            ELSE ROne
    IN  RAdd(RMul(lambda_param, diversity),
             RMul(RSub(ROne, lambda_param), relevance))

\* The score of a remaining candidate in one pass of the loop of
\* _mmr_diversity.
MmrScore(chunk, selected, lambda_param) ==
    LET relevance == RSub(ROne, chunk.score)
        diversity ==
            IF selected # <<>>
            THEN RSub(ROne, RMax(<<>> \o [k \in 1..Len(selected) |->
                                     TextSimilarity(chunk.text, selected[k].text)]))
            ELSE ROne
    IN  RAdd(RMul(lambda_param, relevance),
             RMul(RSub(ROne, lambda_param), diversity))

\* A variant that a slip in the code would produce.
ArgMax_LastOfTies(xs) ==
    CHOOSE i \in 1..Len(xs) :
        /\ \A j \in 1..Len(xs) : RLe(xs[j], xs[i])
        /\ \A j \in (i + 1)..Len(xs) : RLt(xs[j], xs[i])

\* np.argmax: the first index of the greatest value (1-based here).
ArgMax(xs) ==
    CHOOSE i \in 1..Len(xs) :
        /\ \A j \in 1..Len(xs) : RLe(xs[j], xs[i])
        /\ \A j \in 1..(i - 1) : RLt(xs[j], xs[i])

\* A variant that a slip in the code would produce.
MmrLoopTest_OneShort(f) == Len(f.selected) < f.top_k - 1 /\ f.remaining # <<>>

\* The test of the while loop of _mmr_diversity.
MmrLoopTest(f) == Len(f.selected) < f.top_k /\ f.remaining # <<>>

\* A variant that a slip in the code would produce.
BatchCalls_PerChunk(chunks) == Len(chunks)

\* The calls of the embedding provider made for the texts of the chunks: one,
\* with the list of all texts.
BatchCalls(chunks) == 1

\* A variant that a slip in the code would produce.
EmbedFailure_Swallowed(f) ==
    [f EXCEPT !.pc = "returned", !.result = f.chunks, !.embed_calls = @ + 1,
              !.failed = TRUE]

\* A call of the embedding provider raises: nothing catches the exception.
EmbedFailure(f) ==
    [f EXCEPT !.pc = "raised", !.embed_calls = @ + 1, !.failed = TRUE]
\* A variant that a slip in the code would produce.
MmrIterate_NoPop(f, lambda_param) ==
    LET mmr_scores == <<>> \o [k \in 1..Len(f.remaining) |->
                          MmrScore(f.remaining[k], f.selected, lambda_param)]
        best_idx   == ArgMax(mmr_scores)
    IN  [f EXCEPT !.selected = Append(@, f.remaining[best_idx])]

\* One pass through the body of the while loop.
MmrIterate(f, lambda_param) ==
    LET mmr_scores == <<>> \o [k \in 1..Len(f.remaining) |->
                          MmrScore(f.remaining[k], f.selected, lambda_param)]
        best_idx   == ArgMax(mmr_scores)
    IN  [f EXCEPT !.selected = Append(@, f.remaining[best_idx]),
                  !.remaining = SubSeq(@, 1, best_idx - 1) \o
                                SubSeq(@, best_idx + 1, Len(@))]
\* A variant that a slip in the code would produce.
MmrEnter_SelectedKept(f, chunks) ==
    IF Len(chunks) <= f.top_k
    THEN [f EXCEPT !.pc = "returned", !.chunks = chunks, !.result = chunks]
    ELSE [f EXCEPT !.pc = "mmr_loop", !.chunks = chunks,
                   !.selected = Append(@, chunks[1]), !.remaining = Tail(chunks)]

\* A variant that a slip in the code would produce.
MmrEnter_NoEarlyReturn(f, chunks) ==
    IF chunks = <<>>
    THEN [f EXCEPT !.pc = "raised", !.chunks = chunks]
    ELSE [f EXCEPT !.pc = "mmr_loop", !.chunks = chunks,
                   !.selected = <<chunks[1]>>, !.remaining = Tail(chunks)]

\* A variant that a slip in the code would produce.
MmrEnter_StrictlyFewer(f, chunks) ==
    IF Len(chunks) < f.top_k
    THEN [f EXCEPT !.pc = "returned", !.chunks = chunks, !.result = chunks]
    ELSE [f EXCEPT !.pc = "mmr_loop", !.chunks = chunks,
                   !.selected = <<chunks[1]>>, !.remaining = Tail(chunks)]

\* Entry of _mmr_diversity: the early return, or the seeding of the loop.
MmrEnter(f, chunks) ==
    IF Len(chunks) <= f.top_k
    THEN [f EXCEPT !.pc = "returned", !.chunks = chunks, !.result = chunks]
    ELSE [f EXCEPT !.pc = "mmr_loop", !.chunks = chunks,
                   !.selected = <<chunks[1]>>, !.remaining = Tail(chunks)]
\* _mmr_diversity from a frame it has entered to its return value.
RECURSIVE MmrRun(_)
MmrRun(f) ==
    IF f.pc = "returned" THEN f.result
    ELSE IF MmrLoopTest(f) THEN MmrRun(MmrIterate(f, f.lambda_param))
    ELSE f.selected

\* What _direct_similarity_search returns for a query whose similarity to the
\* documents of the collection is sim.
DirectSearchResult(coll, sim, top_k) ==
    MmrRun(MmrEnter([SearchIdle EXCEPT !.top_k = top_k],
                    StoreQuery(coll, sim, NResults(top_k))))

\* Entry of search: the arguments, the filter and the choice of the path.
\* The locals of the callees (chunks, selected, remaining, result) are
\* assigned where the code assigns them.
SearchEnter(f, query, top_k) ==
    LET metadata_filter == ParseMetadataQuery(query)
    IN  [f EXCEPT !.query = query, !.top_k = top_k,
                  !.lambda_param = DefaultLambda,
                  !.metadata_filter = metadata_filter,
                  !.pc = IF metadata_filter # None THEN "filter" ELSE "direct",
                  !.path = IF metadata_filter # None THEN "" ELSE "nofilter",
                  !.embed_calls = 0, !.failed = FALSE]

SearchCall ==
    /\ srch.pc = "idle"
    /\ \E query \in SearchQueries, top_k \in 1..MaxTopK :
          srch' = SearchEnter(srch, query, top_k)
    /\ UNCHANGED <<split, seg, parsed, collection, ix, veo, expl>>

\* Variants that a slip in the code would produce.
FilterBranch_ReturnsEmpty(f, filtered_chunks) ==
    IF filtered_chunks = <<>>
    THEN [f EXCEPT !.pc = "returned", !.path = "fallback", !.result = <<>>]
    ELSE [f EXCEPT !.pc = "rank", !.path = "matched", !.chunks = filtered_chunks]

FilterBranch_Raises(f, filtered_chunks) ==
    IF filtered_chunks = <<>>
    THEN [f EXCEPT !.pc = "raised", !.path = "fallback"]
    ELSE [f EXCEPT !.pc = "rank", !.path = "matched", !.chunks = filtered_chunks]

\* "if not filtered_chunks": the fallback, or the ranking of the matches.
FilterBranch(f, filtered_chunks) ==
    IF filtered_chunks = <<>>
    THEN [f EXCEPT !.pc = "direct", !.path = "fallback"]
    ELSE [f EXCEPT !.pc = "rank", !.path = "matched", !.chunks = filtered_chunks]

\* _metadata_filtered_search up to the choice between ranking and fallback.
SearchFilter ==
    /\ srch.pc = "filter"
    /\ srch' = FilterBranch(srch, FilteredChunks(collection, srch.metadata_filter[1]))
    /\ UNCHANGED <<split, seg, parsed, collection, ix, veo, expl>>

\* _rank_by_similarity: the embedding of the query.
SearchRankEmbedQuery ==
    /\ srch.pc = "rank"
    /\ srch' = [srch EXCEPT !.pc = "rank_chunks", !.embed_calls = @ + 1]
    /\ UNCHANGED <<split, seg, parsed, collection, ix, veo, expl>>

\* _rank_by_similarity: the batched embedding of the chunks, the scores, the
\* sort and the entry of _mmr_diversity.
SearchRankChunks ==
    /\ srch.pc = "rank_chunks"
    /\ \E sim \in Similarities(Documents(collection)) :
          /\ srch.provider \in {None, Some(sim)}
          /\ srch' = MmrEnter([srch EXCEPT !.embed_calls = @ + BatchCalls(srch.chunks),
                                           !.provider = Some(sim)],
                              RankChunks(srch.chunks, sim))
    /\ UNCHANGED <<split, seg, parsed, collection, ix, veo, expl>>

\* _direct_similarity_search: the embedding of the query.
SearchDirectEmbedQuery ==
    /\ srch.pc = "direct"
    /\ srch' = [srch EXCEPT !.pc = "query", !.embed_calls = @ + 1]
    /\ UNCHANGED <<split, seg, parsed, collection, ix, veo, expl>>

\* _direct_similarity_search: the query to the collection, the conversion of
\* its result and the entry of _mmr_diversity.
SearchDirectQuery ==
    /\ srch.pc = "query"
    /\ \E sim \in Similarities(Documents(collection)) :
          /\ srch.provider \in {None, Some(sim)}
          /\ srch' = MmrEnter([srch EXCEPT !.provider = Some(sim)],
                              StoreQuery(collection, sim, NResults(srch.top_k)))
    /\ UNCHANGED <<split, seg, parsed, collection, ix, veo, expl>>

\* A call of the embedding provider fails: the exception leaves search.
SearchEmbedFails ==
    /\ srch.pc \in {"rank", "rank_chunks", "direct"}
    /\ srch' = EmbedFailure(srch)
    /\ UNCHANGED <<split, seg, parsed, collection, ix, veo, expl>>

SearchMmrLoopBody ==
    /\ srch.pc = "mmr_loop"
    /\ MmrLoopTest(srch)
    /\ srch' = MmrIterate(srch, srch.lambda_param)
    /\ UNCHANGED <<split, seg, parsed, collection, ix, veo, expl>>

SearchMmrReturn ==
    /\ srch.pc = "mmr_loop"
    /\ ~MmrLoopTest(srch)
    /\ srch' = [srch EXCEPT !.pc = "returned", !.result = srch.selected]
    /\ UNCHANGED <<split, seg, parsed, collection, ix, veo, expl>>

Init ==
    /\ split = SplitIdle
    /\ seg = SegIdle
    /\ parsed = ParseIdle
    /\ collection \in CollectionsUpTo(MaxCorpus)
    /\ srch = SearchIdle
    /\ ix = IndexIdle
    /\ veo = VeoIdle
    /\ expl = ExplainIdle

Next ==
    \/ SearchCall
    \/ SearchFilter
    \/ SearchRankEmbedQuery
    \/ SearchRankChunks
    \/ SearchDirectEmbedQuery
    \/ SearchDirectQuery
    \/ SearchEmbedFails
    \/ SearchMmrLoopBody
    \/ SearchMmrReturn

Spec == Init /\ [][Next]_vars

(***************************************************************************)
(* Properties of search.                                                   *)
(***************************************************************************)
\* ---------------------------------------------------------------------------
\* _mmr_diversity called on its own, with every lambda_param of Lambdas, on
\* lists in ascending order of score, as both of its callers pass them.

Lambdas == { <<0, 1>>, DefaultLambda, <<1, 1>> }

Scores == { <<0, 1>>, <<1, 2>>, <<1, 1>> }

CandidateTypes ==
    { [text |-> r.document, metadata |-> r.metadata, score |-> x] :
        r \in {t \in ChunkTypes : t.metadata.chapter = Some(1)}, x \in Scores }

RECURSIVE SortedCandidates(_)
SortedCandidates(n) ==
    IF n = 0 THEN {<<>>}
    ELSE LET S == SortedCandidates(n - 1)
         IN  S \cup {Append(p[1], p[2]) :
                        p \in {q \in S \X CandidateTypes :
                                  \/ q[1] = <<>>
                                  \/ RLe(q[1][Len(q[1])].score, q[2].score)}}

MmrCall ==
    /\ srch.pc = "idle"
    /\ \E chunks \in SortedCandidates(MaxCands), top_k \in 1..MaxCands,
          lambda_param \in Lambdas :
          srch' = MmrEnter([srch EXCEPT !.top_k = top_k, !.path = "mmr",
                                        !.lambda_param = lambda_param], chunks)
    /\ UNCHANGED <<split, seg, parsed, collection, ix, veo, expl>>

InitMmr ==
    /\ split = SplitIdle
    /\ seg = SegIdle
    /\ parsed = ParseIdle
    /\ collection = <<>>
    /\ srch = SearchIdle
    /\ ix = IndexIdle
    /\ veo = VeoIdle
    /\ expl = ExplainIdle

NextMmr == MmrCall \/ SearchMmrLoopBody \/ SearchMmrReturn

SpecMmr == InitMmr /\ [][NextMmr]_vars

\* ---------------------------------------------------------------------------
\* ---------------------------------------------------------------------------
\* Two calls of search in a row with the same query and top_k, on the same
\* retriever and corpus, with an embedding provider that answers the second
\* call as it answered the first.

\* The second call: the frame is the one the first call left.
SearchAgain ==
    /\ srch.pc = "returned"
    /\ srch.path # "mmr"
    /\ srch.first = None
    /\ srch' = SearchEnter([srch EXCEPT !.first = Some(srch.result)],
                           srch.query, srch.top_k)
    /\ UNCHANGED <<split, seg, parsed, collection, ix, veo, expl>>

NextTwice == Next \/ SearchAgain

SpecTwice == Init /\ [][NextTwice]_vars

\* The chunks of the collection that carry the filter's field with its value.
MatchingRecords(metadata_filter) ==
    {i \in 1..Len(collection) :
        LET field == collection[i].metadata[metadata_filter.key]
        IN  field # None /\ field = metadata_filter.value}

\* The number of candidates search ranks: the matching chunks when a filter
\* is derived and matches, else the nearest min(2 * top_k, 10) of the corpus.
Candidates ==
    LET metadata_filter == ParseMetadataQuery(srch.query)
    IN  IF metadata_filter # None /\ MatchingRecords(metadata_filter[1]) # {}
        THEN Cardinality(MatchingRecords(metadata_filter[1]))
        ELSE Min(Min(2 * srch.top_k, 10), Len(collection))

CountOf(chunks, record) ==
    Cardinality({k \in 1..Len(chunks) :
        /\ chunks[k].text = record.document
        /\ chunks[k].metadata = record.metadata})

\* C11: when a filter is derived and at least one chunk of the corpus matches
\* it, the chunks that are ranked are exactly the chunks of the corpus whose
\* metadata field (section as a string, chapter as an integer) equals the
\* value of the filter, every returned chunk satisfies the filter, and a
\* chunk without the field is never among them.
C11_RankedAreTheMatching ==
    LET metadata_filter == ParseMetadataQuery(srch.query)
    IN  (srch.pc \in {"rank", "rank_chunks", "mmr_loop", "returned"}
            /\ metadata_filter # None /\ MatchingRecords(metadata_filter[1]) # {}) =>
        LET hits == MatchingRecords(metadata_filter[1])
            key == metadata_filter[1].key
        IN  /\ srch.path = "matched"
            /\ Len(srch.chunks) = Cardinality(hits)
            /\ \A i \in hits :
                  CountOf(srch.chunks, collection[i]) =
                      Cardinality({j \in hits : collection[j] = collection[i]})
            /\ \A k \in 1..Len(srch.chunks) :
                  srch.chunks[k].metadata[key] # None
            /\ srch.pc = "returned" =>
                  \A k \in 1..Len(srch.result) :
                      /\ srch.result[k].metadata[key] = metadata_filter[1].value
                      /\ CountOf(srch.chunks, [document |-> srch.result[k].text,
                                               metadata |-> srch.result[k].metadata]) > 0

C11_Witness ==
    /\ srch.pc = "returned"
    /\ srch.path = "matched"
    /\ srch.metadata_filter[1].key = "chapter"
    /\ Len(srch.result) > 0
    /\ Len(srch.chunks) < Len(collection)
    /\ \E i \in 1..Len(collection) : collection[i].metadata.chapter = None

\* C12: when a filter is derived and no chunk of the corpus matches it, search
\* does not fail and returns exactly what _direct_similarity_search returns
\* for the same query and top_k on the same corpus, as it does for a query
\* from which no filter is derived.
C12_FallbackIsDirectSearch ==
    /\ (srch.path = "fallback" /\ srch.pc = "raised") => srch.failed
    /\ (srch.pc = "returned" /\ srch.path \in {"fallback", "nofilter"}) =>
          /\ srch.provider # None
          /\ srch.result =
                DirectSearchResult(collection, srch.provider[1], srch.top_k)

C12_Witness ==
    /\ srch.pc = "returned"
    /\ srch.path = "fallback"
    /\ Len(collection) > srch.top_k
    /\ Len(srch.result) = srch.top_k
    /\ srch.result # SubSeq(srch.chunks, 1, srch.top_k)

\* C13: _rank_by_similarity gives each candidate the score 1 - dot(query
\* vector, chunk vector), orders the candidates by ascending score and hands
\* the diversity stage at least min(2 * top_k, number of candidates) of them,
\* so never fewer than top_k when that many exist.
C13_RankedByDistance ==
    (srch.path = "matched" /\ srch.pc \in {"mmr_loop", "returned"}) =>
        LET dot == srch.provider[1]
            candidates == Cardinality(MatchingRecords(srch.metadata_filter[1]))
        IN  /\ \A k \in 1..Len(srch.chunks) :
                  /\ srch.chunks[k].score[2] = dot[srch.chunks[k].text][2]
                  /\ srch.chunks[k].score[1] =
                        dot[srch.chunks[k].text][2] - dot[srch.chunks[k].text][1]
            /\ \A k \in 1..(Len(srch.chunks) - 1) :
                  srch.chunks[k].score[1] * srch.chunks[k + 1].score[2] <=
                      srch.chunks[k + 1].score[1] * srch.chunks[k].score[2]
            /\ Len(srch.chunks) >= Min(2 * srch.top_k, candidates)
            /\ candidates >= srch.top_k => Len(srch.chunks) >= srch.top_k

C13_Witness ==
    /\ srch.pc = "returned"
    /\ srch.path = "matched"
    /\ Len(srch.chunks) > srch.top_k
    /\ \E k \in 1..(Len(srch.chunks) - 1) :
          srch.chunks[k].score # srch.chunks[k + 1].score
    /\ \E i, j \in 1..Len(collection) :
          /\ i < j
          /\ MatchesFilter(collection[i].metadata, srch.metadata_filter[1])
          /\ MatchesFilter(collection[j].metadata, srch.metadata_filter[1])
          /\ RLt(srch.provider[1][collection[i].document],
                 srch.provider[1][collection[j].document])

\* C14: _mmr_diversity called with top_k >= len(chunks) returns its input
\* unchanged, the same elements in the same order, for every lambda_param.
C14_ShortInputUnchanged ==
    (srch.pc # "idle" /\ Len(srch.chunks) <= srch.top_k) =>
        /\ srch.pc = "returned"
        /\ srch.result = srch.chunks

C14_Witness ==
    /\ srch.pc = "returned"
    /\ srch.path = "mmr"
    /\ srch.lambda_param = <<0, 1>>
    /\ Len(srch.chunks) = srch.top_k
    /\ Len(srch.chunks) >= 3
    /\ srch.chunks[2].text = srch.chunks[1].text
    /\ srch.chunks[3].text # srch.chunks[1].text
    /\ srch.result = srch.chunks

Jaccard(text1, text2) ==
    LET A == WordSet(text1)
        B == WordSet(text2)
    IN  IF A = {} \/ B = {} THEN <<0, 1>>
        ELSE <<Cardinality(A \cap B), Cardinality(A \cup B)>>

\* lambda * (1 - score) + (1 - lambda) * (1 - max Jaccard to the selected).
MmrValue(chunk, selected, lambda) ==
    LET sims == {Jaccard(chunk.text, selected[k].text) : k \in 1..Len(selected)}
        top  == CHOOSE x \in sims : \A y \in sims : y[1] * x[2] <= x[1] * y[2]
        rel  == <<chunk.score[2] - chunk.score[1], chunk.score[2]>>
        div  == <<top[2] - top[1], top[2]>>
    IN  <<lambda[1] * rel[1] * div[2] + (lambda[2] - lambda[1]) * div[1] * rel[2],
          lambda[2] * rel[2] * div[2]>>

\* xs is ys with some positions left out.
RECURSIVE IsSubsequence(_, _)
IsSubsequence(xs, ys) ==
    IF xs = <<>> THEN TRUE
    ELSE IF ys = <<>> THEN FALSE
    ELSE IF xs[1] = ys[1] /\ IsSubsequence(Tail(xs), Tail(ys)) THEN TRUE
    ELSE IsSubsequence(xs, Tail(ys))

C16_Step ==
    (srch.pc = "mmr_loop" /\ srch'.pc = "mmr_loop" /\ srch' # srch) =>
        LET moved  == srch'.selected[Len(srch'.selected)]
            values == <<>> \o [k \in 1..Len(srch.remaining) |->
                         MmrValue(srch.remaining[k], srch.selected, srch.lambda_param)]
        IN  /\ srch'.selected = Append(srch.selected, moved)
            /\ IsSubsequence(srch.remaining, srch.chunks)
            /\ \E p \in 1..Len(srch.remaining) :
                  /\ srch.remaining[p] = moved
                  /\ srch'.remaining = SubSeq(srch.remaining, 1, p - 1) \o
                                       SubSeq(srch.remaining, p + 1, Len(srch.remaining))
                  /\ \A k \in 1..Len(srch.remaining) : RLe(values[k], values[p])
                  /\ \A k \in 1..(p - 1) : RLt(values[k], values[p])

C17_EmptyCorpusEmptyResult ==
    collection = <<>> =>
        /\ srch.pc = "raised" => srch.failed
        /\ srch.pc = "returned" => srch.result = <<>>
        /\ srch.pc \notin {"rank", "rank_chunks", "mmr_loop"}

C17_Witness ==
    /\ collection = <<>>
    /\ srch.pc = "returned"
    /\ srch.path = "fallback"
    /\ srch.top_k = MaxTopK
    /\ srch.embed_calls = 1
    /\ srch.result = <<>>

\* C18: if a call to the embedding provider fails, search ends in a failure
\* visible to its caller: it returns no result list, partial or complete, and
\* takes no other path.
C18_ProviderFailureIsRaised ==
    srch.failed =>
        /\ srch.pc = "raised"
        /\ srch.result = <<>>
        /\ srch.selected = <<>>
        /\ srch.path \in {"matched", "fallback", "nofilter"}
        /\ srch.provider = None
        /\ \A k \in 1..Len(srch.chunks) : srch.chunks[k].score = RZero

C18_Witness ==
    /\ srch.failed
    /\ srch.pc = "raised"
    /\ srch.path = "matched"
    /\ srch.embed_calls = 2
    /\ Len(srch.chunks) >= 2

\* C20: every execution of search calls the embedding provider at least once
\* and at most twice: once for the query and, only when a filter matched, once
\* more with all the texts of the matching chunks; no path, the fallback
\* included, makes a third call.
C20_OneOrTwoEmbeddingCalls ==
    /\ srch.embed_calls <= 2
    /\ srch.embed_calls = 2 => srch.path = "matched"
    /\ (srch.pc \in {"returned", "raised"} /\ srch.path # "mmr") =>
          srch.embed_calls >= 1
    /\ (srch.pc = "returned" /\ srch.path = "matched") => srch.embed_calls = 2
    /\ (srch.pc = "returned" /\ srch.path \in {"fallback", "nofilter"}) =>
          srch.embed_calls = 1

C20_Witness ==
    /\ srch.pc = "returned"
    /\ srch.path = "matched"
    /\ Len(srch.chunks) >= 3
    /\ srch.embed_calls = 2

\* C19: with an embedding provider that answers alike and an unchanged
\* corpus, two calls of search with the same query and top_k return the same
\* chunks in the same order: the first call leaves nothing behind that alters
\* the second.
C19_SecondCallSameResult ==
    (srch.pc = "returned" /\ srch.first # None) =>
        srch.result = srch.first[1]

C19_Witness ==
    /\ srch.pc = "returned"
    /\ srch.first # None
    /\ srch.path = "matched"
    /\ Len(srch.chunks) > srch.top_k
    /\ srch.top_k >= 2
    /\ srch.result = srch.first[1]
    /\ srch.result # SubSeq(srch.chunks, 1, srch.top_k)

(***************************************************************************)
(* indexer.main: the persisted chunks are loaded, the collection is        *)
(* deleted if it exists and created, and the chunks are embedded and added *)
(* in batches.                                                             *)
(***************************************************************************)
BATCH_SIZE == 32

\* str(i) of a natural number.
RECURSIVE ToDecimal(_)
ToDecimal(i) ==
    IF i < 10 THEN <<Digits[i + 1]>>
    ELSE ToDecimal(i \div 10) \o <<Digits[(i % 10) + 1]>>

\* f"chunk_{i}"
ChunkId(i) == <<"c", "h", "u", "n", "k", "_">> \o ToDecimal(i)

\* A chunk of the persisted-chunk file: the text and the other fields.
FileChunk(r, chunk_index) ==
    [text |-> r.document, chapter |-> r.metadata.chapter,
     section |-> r.metadata.section, chunk_index |-> chunk_index]

\* The persisted-chunk files: n chunks, drawn in turn from the chunk types.
ChunkFiles ==
    LET types == <<CHOOSE t \in ChunkTypes : t.document = <<"d">> /\ t.metadata.chapter = Some(2),
                   CHOOSE t \in ChunkTypes : t.document = <<"a", " ", "b">> /\ t.metadata.chapter = None,
                   CHOOSE t \in ChunkTypes : t.document = <<"A", " ", "b", " ", "c">>>>
    IN  { [i \in 1..n |-> FileChunk(types[((i + k) % 3) + 1], (i + k) % 2)] :
            n \in 0..MaxFileLen, k \in 0..2 }

\* What a collection of an earlier run holds.
PriorStores ==
    { <<>>,
      <<[id |-> ChunkId(0), document |-> <<"o">>,
         metadata |-> [chapter |-> Some(9)]],
        [id |-> ChunkId(70), document |-> <<"o">>,
         metadata |-> [chapter |-> Some(9)]]>> }

\* "Store all metadata except text".
Meta(chunk) == [k \in DOMAIN chunk \ {"text"} |-> chunk[k]]

\* A variant that a slip in the code would produce.
BatchEnd_OneShort(start, n) == Min(start + BATCH_SIZE - 1, n)

\* end of the batch that starts at start.
BatchEnd(start, n) == Min(start + BATCH_SIZE, n)

\* collection.add: the records are appended; an id the collection already
\* holds is not added again.
StoreAdd(store, ids, documents, metadatas) ==
    LET fresh == SelectSeq([j \in 1..Len(ids) |-> j],
                           LAMBDA j : \A m \in 1..Len(store) : store[m].id # ids[j])
    IN  store \o [m \in 1..Len(fresh) |->
                     [id |-> ids[fresh[m]], document |-> documents[fresh[m]],
                      metadata |-> metadatas[fresh[m]]]]

\* json.load of the persisted-chunk file.
IndexLoad ==
    /\ ix.pc = "idle"
    /\ \E chunks \in ChunkFiles : ix' = [ix EXCEPT !.pc = "loaded", !.chunks = chunks]
    /\ UNCHANGED <<split, seg, parsed, collection, srch, veo, expl>>

\* delete_collection if the name is listed, then create_collection.
IndexReset ==
    /\ ix.pc = "loaded"
    /\ ix' = [ix EXCEPT !.pc = "prepare", !.exists = TRUE, !.store = <<>>]
    /\ UNCHANGED <<split, seg, parsed, collection, srch, veo, expl>>

\* The loop that builds ids, documents and metadatas.
IndexPrepare ==
    /\ ix.pc = "prepare"
    /\ ix' = [ix EXCEPT !.pc = "batch", !.start = 0,
                        !.ids = [i \in 1..Len(ix.chunks) |-> ChunkId(i - 1)],
                        !.documents = [i \in 1..Len(ix.chunks) |-> ix.chunks[i].text],
                        !.metadatas = [i \in 1..Len(ix.chunks) |-> Meta(ix.chunks[i])]]
    /\ UNCHANGED <<split, seg, parsed, collection, srch, veo, expl>>

\* One pass of the batch loop: the slices, the embedding and collection.add.
IndexBatch ==
    /\ ix.pc = "batch"
    /\ ix.start < Len(ix.documents)
    /\ LET end == BatchEnd(ix.start, Len(ix.documents))
       IN  ix' = [ix EXCEPT
                     !.store = StoreAdd(@, SubSeq(ix.ids, ix.start + 1, end),
                                        SubSeq(ix.documents, ix.start + 1, end),
                                        SubSeq(ix.metadatas, ix.start + 1, end)),
                     !.batches = Append(@, end - ix.start),
                     !.start = @ + BATCH_SIZE]
    /\ UNCHANGED <<split, seg, parsed, collection, srch, veo, expl>>

\* The embedding of a batch fails: the exception leaves main.
IndexBatchFails ==
    /\ ix.pc = "batch"
    /\ ix.start < Len(ix.documents)
    /\ ix' = [ix EXCEPT !.pc = "raised"]
    /\ UNCHANGED <<split, seg, parsed, collection, srch, veo, expl>>

\* The range of the batch loop is exhausted: main prints and returns.
IndexFinish ==
    /\ ix.pc = "batch"
    /\ ix.start >= Len(ix.documents)
    /\ ix' = [ix EXCEPT !.pc = "done"]
    /\ UNCHANGED <<split, seg, parsed, collection, srch, veo, expl>>

InitIndex ==
    /\ split = SplitIdle
    /\ seg = SegIdle
    /\ parsed = ParseIdle
    /\ collection = <<>>
    /\ srch = SearchIdle
    /\ \E prior \in PriorStores, exists \in BOOLEAN :
          /\ prior # <<>> => exists
          /\ ix = [IndexIdle EXCEPT !.exists = exists, !.store = prior, !.prior = prior]
    /\ veo = VeoIdle
    /\ expl = ExplainIdle

NextIndex ==
    \/ IndexLoad
    \/ IndexReset
    \/ IndexPrepare
    \/ IndexBatch
    \/ IndexBatchFails
    \/ IndexFinish

SpecIndex == InitIndex /\ [][NextIndex]_vars

\* C21: after indexer.main completes without error the collection holds
\* exactly one record per chunk of the persisted-chunk file, with id chunk_i
\* for the i-th chunk (from 0), its text as document and its other fields as
\* metadata, each added once in batches of at most 32, and no record of a
\* prior collection of the same name remains.
C21_CollectionIsTheFile ==
    ix.pc = "done" =>
        /\ ix.exists
        /\ Len(ix.store) = Len(ix.chunks)
        /\ \A i \in 1..Len(ix.chunks) :
              LET at == {j \in 1..Len(ix.store) :
                            /\ SubSeq(ix.store[j].id, 1, 6) = <<"c", "h", "u", "n", "k", "_">>
                            /\ Len(ix.store[j].id) > 6
                            /\ \A m \in 7..Len(ix.store[j].id) : IsDigit(ix.store[j].id[m])
                            /\ (Len(ix.store[j].id) > 7 => ix.store[j].id[7] # "0")
                            /\ ParseInt(SubSeq(ix.store[j].id, 7, Len(ix.store[j].id))) = i - 1}
              IN  /\ Cardinality(at) = 1
                  /\ \A j \in at :
                        /\ ix.store[j].document = ix.chunks[i].text
                        /\ DOMAIN ix.store[j].metadata = DOMAIN ix.chunks[i] \ {"text"}
                        /\ \A k \in DOMAIN ix.store[j].metadata :
                              ix.store[j].metadata[k] = ix.chunks[i][k]
        /\ \A j \in 1..Len(ix.store) : \A m \in 1..Len(ix.prior) : ix.store[j] # ix.prior[m]
        /\ \A b \in 1..Len(ix.batches) : ix.batches[b] >= 1 /\ ix.batches[b] <= 32
        /\ Len(ix.batches) * 32 >= Len(ix.chunks)
        /\ (Len(ix.batches) - 1) * 32 < Len(ix.chunks) \/ ix.chunks = <<>>

C21_Witness ==
    /\ ix.pc = "done"
    /\ ix.prior # <<>>
    /\ Len(ix.chunks) > 64
    /\ Len(ix.batches) = 3
    /\ Len(ix.store) = Len(ix.chunks)

\* C22: every section built by extract_hierarchical_chunks, and so every
\* chunk it emits, has start_page <= end_page, for every input stream, also
\* when two section headers stand on the same page.
C22_PageRangeOrdered ==
    /\ \A j \in 1..Len(seg.sections) :
          seg.sections[j].start_page <= seg.sections[j].end_page
    /\ \A j \in 1..Len(seg.leaf_chunks) :
          seg.leaf_chunks[j].start_page <= seg.leaf_chunks[j].end_page

\* The runs of _mmr_diversity from its entry, one for every call of MmrCall
\* with more candidates than top_k.
InitMmrRun ==
    /\ split = SplitIdle
    /\ seg = SegIdle
    /\ parsed = ParseIdle
    /\ collection = <<>>
    /\ \E chunks \in SortedCandidates(MaxCands), top_k \in 1..MaxCands,
          lambda_param \in Lambdas :
          /\ Len(chunks) > top_k
          /\ srch = MmrEnter([SearchIdle EXCEPT !.top_k = top_k, !.path = "mmr",
                                                !.lambda_param = lambda_param], chunks)
    /\ ix = IndexIdle
    /\ veo = VeoIdle
    /\ expl = ExplainIdle

NextMmrRun == SearchMmrLoopBody \/ SearchMmrReturn

\* The loop is sequential code, so a step that can be taken is taken: weak
\* fairness of the step, which is enabled exactly when pc is "mmr_loop" (the
\* body when the test of the loop holds, the return when it does not); a step
\* that leaves a state with pc "mmr_loop" is a step of NextMmrRun.
MmrRunFairness ==
    []<>(srch.pc # "mmr_loop") \/ []<><<srch.pc = "mmr_loop">>_vars

SpecMmrRun == InitMmrRun /\ [][NextMmrRun]_vars /\ MmrRunFairness

\* The number of positions of a list that hold the candidate c.
Occurrences(list, c) == Cardinality({k \in 1..Len(list) : list[k] = c})

C23_Partition ==
    (srch.path = "mmr" /\ srch.pc = "mmr_loop") =>
        /\ Len(srch.selected) + Len(srch.remaining) = Len(srch.chunks)
        /\ \A k \in 1..Len(srch.chunks) :
              Occurrences(srch.selected \o srch.remaining, srch.chunks[k]) =
                  Occurrences(srch.chunks, srch.chunks[k])

C23_Result ==
    (srch.path = "mmr" /\ srch.pc = "returned" /\ Len(srch.chunks) > srch.top_k) =>
        /\ Len(srch.result) = srch.top_k
        /\ srch.result[1] = srch.chunks[1]
        /\ \A k \in 1..Len(srch.result) :
              Occurrences(srch.result, srch.result[k]) <=
                  Occurrences(srch.chunks, srch.result[k])

\* C23: when _mmr_diversity is called with len(chunks) > top_k >= 1, at every
\* pass of the loop selected and remaining together hold each input candidate
\* exactly once, the loop terminates, and the result holds exactly top_k
\* candidates of the input, none taken twice, the first of the input first.
C23_LoopKeepsCandidates ==
    /\ [](C23_Partition /\ C23_Result)
    /\ (srch.pc = "mmr_loop") ~> (srch.pc = "returned")

C23_Witness ==
    /\ srch.pc = "returned"
    /\ srch.path = "mmr"
    /\ srch.top_k >= 3
    /\ Len(srch.chunks) > srch.top_k
    /\ Len(srch.result) = srch.top_k
    /\ srch.result[2] # srch.chunks[2]
    /\ srch.chunks[2] = srch.chunks[1]

(***************************************************************************)
(* src/video/veo_generator.py: VeoVideoGenerator.create_video and           *)
(* _wait_for_real_completion.  The operation is the provider's long-running *)
(* job: done and response are its fields as last fetched; polls counts the  *)
(* passes of the polling loop (one sleep of 10 seconds and one              *)
(* operations.get each), bounded by MaxPolls, the 6 minutes the result      *)
(* announces as estimated_completion.  A result keeps the keys the claims   *)
(* read: success, status (None when the key is absent), error (whether the  *)
(* key is present) and video_filename (whether it names a saved file).      *)
(***************************************************************************)
\* video_result of lines 174-186.
VeoProcessing ==
    [success |-> TRUE, status |-> Some("processing"), error |-> FALSE,
     video_filename |-> FALSE]

\* The dictionary returned by the except clause of create_video.
VeoError ==
    [success |-> FALSE, status |-> None, error |-> TRUE, video_filename |-> FALSE]

\* initial_result.update of lines 226-235.
VeoCompleted(initial_result) ==
    [initial_result EXCEPT !.status = Some("completed"), !.video_filename = TRUE]

\* initial_result.update of lines 242-245.
VeoFailed(initial_result) ==
    [initial_result EXCEPT !.status = Some("failed"), !.error = TRUE]

\* The states an operation can be fetched in: response is read only once the
\* operation is done.
Operations ==
    {op \in [done : BOOLEAN, response : BOOLEAN] : op.response => op.done}

\* create_video is entered: the prompt is built (script_to_veo_prompt does
\* not fail on a string).
VeoCall ==
    /\ veo.pc = "idle"
    /\ \E wait_for_completion \in BOOLEAN :
          veo' = [veo EXCEPT !.pc = "generate",
                             !.wait_for_completion = wait_for_completion]
    /\ UNCHANGED <<split, seg, parsed, collection, srch, ix, expl>>

\* models.generate_videos returns an operation; without wait_for_completion
\* video_result is returned, with it the polling loop is entered.
VeoGenerate ==
    /\ veo.pc = "generate"
    /\ \E op \in Operations :
          veo' = IF veo.wait_for_completion
                 THEN [veo EXCEPT !.pc = "poll", !.done = op.done,
                                  !.response = op.response,
                                  !.result = Some(VeoProcessing)]
                 ELSE [veo EXCEPT !.pc = "returned", !.done = op.done,
                                  !.response = op.response,
                                  !.result = Some(VeoProcessing)]
    /\ UNCHANGED <<split, seg, parsed, collection, srch, ix, expl>>

\* models.generate_videos raises: the except clause returns.
VeoGenerateFails ==
    /\ veo.pc = "generate"
    /\ veo' = [veo EXCEPT !.pc = "returned", !.result = Some(VeoError)]
    /\ UNCHANGED <<split, seg, parsed, collection, srch, ix, expl>>

\* One pass of `while not operation.done`: sleep, then operations.get.
VeoPoll ==
    /\ veo.pc = "poll"
    /\ ~veo.done
    /\ veo.polls < MaxPolls
    /\ \E op \in Operations :
          veo' = [veo EXCEPT !.done = op.done, !.response = op.response,
                             !.polls = @ + 1]
    /\ UNCHANGED <<split, seg, parsed, collection, srch, ix, expl>>

\* operations.get raises inside the loop: the except clause of create_video
\* returns.
VeoPollFails ==
    /\ veo.pc = "poll"
    /\ ~veo.done
    /\ veo.polls < MaxPolls
    /\ veo' = [veo EXCEPT !.pc = "returned", !.polls = @ + 1,
                          !.result = Some(VeoError)]
    /\ UNCHANGED <<split, seg, parsed, collection, srch, ix, expl>>

\* The loop is left with a response: the video is downloaded and saved.
VeoComplete ==
    /\ veo.pc = "poll"
    /\ veo.done /\ veo.response
    /\ veo' = [veo EXCEPT !.pc = "returned",
                          !.result = Some(VeoCompleted(veo.result[1]))]
    /\ UNCHANGED <<split, seg, parsed, collection, srch, ix, expl>>

\* The loop is left with a response, and the download or the save raises: the
\* except clause of create_video returns.
VeoDownloadFails ==
    /\ veo.pc = "poll"
    /\ veo.done /\ veo.response
    /\ veo' = [veo EXCEPT !.pc = "returned", !.result = Some(VeoError)]
    /\ UNCHANGED <<split, seg, parsed, collection, srch, ix, expl>>

\* The loop is left without a response: the else branch of lines 239-246.
VeoFail ==
    /\ veo.pc = "poll"
    /\ veo.done /\ ~veo.response
    /\ veo' = [veo EXCEPT !.pc = "returned",
                          !.result = Some(VeoFailed(veo.result[1]))]
    /\ UNCHANGED <<split, seg, parsed, collection, srch, ix, expl>>

InitVeo ==
    /\ split = SplitIdle
    /\ seg = SegIdle
    /\ parsed = ParseIdle
    /\ collection = <<>>
    /\ srch = SearchIdle
    /\ ix = IndexIdle
    /\ veo = VeoIdle
    /\ expl = ExplainIdle

NextVeo ==
    \/ VeoCall
    \/ VeoGenerate
    \/ VeoGenerateFails
    \/ VeoPoll
    \/ VeoPollFails
    \/ VeoComplete
    \/ VeoDownloadFails
    \/ VeoFail

SpecVeo == InitVeo /\ [][NextVeo]_vars

\* C24: create_video never raises and reports success truthfully: a returned
\* result has success = True only if the generation did not fail, so a result
\* with status 'failed' never carries success = True; with
\* wait_for_completion a result that carries a status is returned only once
\* the operation is done, and that status is 'completed' or 'failed', never
\* 'processing'.
C24_SuccessIsTruthful ==
    /\ ~veo.raised
    /\ veo.pc = "returned" =>
          /\ veo.result # None
          /\ veo.result[1].status = Some("failed") => ~veo.result[1].success
          /\ (veo.wait_for_completion /\ veo.result[1].status # None) =>
                /\ veo.done
                /\ veo.result[1].status \in {Some("completed"), Some("failed")}

(***************************************************************************)
(* src/llm/explainer.py: generate_script and count_narration_words.  A      *)
(* script is its sequence of lines; a line is the label it starts with      *)
(* ("" when it starts with none) and the number of words after the label,   *)
(* so a blank line has label "" and no words.  The words themselves never   *)
(* spell a label.  A title is its sequence of words.                        *)
(***************************************************************************)
BlankLine == [label |-> "", words |-> 0]

ScriptLines == [label : {"", "NARRATION", "SCENE"}, words : {0, 50, 51}]

\* The texts the provider can answer with.
Contents ==
    UNION {[1..n -> ScriptLines] : n \in 0..MaxScriptLines}

\* str.strip on a text: the blank lines at both ends go; the white space
\* around the first and the last line holds no label and no word.
RECURSIVE StripLeadingLines(_)
StripLeadingLines(text) ==
    IF text # <<>> /\ Head(text) = BlankLine THEN StripLeadingLines(Tail(text)) ELSE text

RECURSIVE StripTrailingLines(_)
StripTrailingLines(text) ==
    IF text # <<>> /\ text[Len(text)] = BlankLine
    THEN StripTrailingLines(SubSeq(text, 1, Len(text) - 1))
    ELSE text

StripLines(text) == StripTrailingLines(StripLeadingLines(text))

\* len(line.split()) of a line: its label, when it has one, is a word too.
LineWords(line) == line.words + (IF line.label # "" THEN 1 ELSE 0)

\* re.search(r'NARRATION:\s*(.+?)(?:\n|$)', script, re.DOTALL): the first
\* label, then \s* runs over white space and line ends, and the group takes
\* what follows up to the end of that line; without a match the count is 0.
count_narration_words(script) ==
    LET at == {k \in 1..Len(script) : script[k].label = "NARRATION"}
    IN  IF at = {} THEN 0
        ELSE LET k == CHOOSE k \in at : \A m \in at : k <= m
                 later == {j \in (k + 1)..Len(script) : script[j] # BlankLine}
             IN  IF script[k].words > 0 THEN script[k].words
                 ELSE IF later = {} THEN 0
                 ELSE LineWords(script[CHOOSE j \in later : \A m \in later : j <= m])

\* The chunk lists generate_script is called with: none, one chunk whose
\* metadata has a title, one whose metadata has none.
ExplainChunkLists ==
    {<<>>,
     <<[text |-> <<"t">>, metadata |-> [title |-> Some(<<"Units">>)]]>>,
     <<[text |-> <<"t">>, metadata |-> [title |-> None]]>>}

\* chunks[0]['metadata'].get('title', 'Physics Concept') if chunks else
\* 'Physics Concept'.
PrimarySection(chunks) ==
    IF chunks # <<>> /\ chunks[1].metadata.title # None
    THEN chunks[1].metadata.title[1]
    ELSE <<"Physics", "Concept">>

\* The script of the except clause.
FallbackScript(primary_section) ==
    <<[label |-> "SCENE", words |-> 10],
      [label |-> "NARRATION", words |-> 9 + Len(primary_section)],
      [label |-> "VISUAL_ACTION", words |-> 10],
      [label |-> "CAMERA", words |-> 7],
      [label |-> "AUDIO", words |-> 7]>>

\* generate_script is entered: combined_text, primary_section and the prompt
\* are built.
ExplainCall ==
    /\ expl.pc = "idle"
    /\ \E chunks \in ExplainChunkLists :
          expl' = [expl EXCEPT !.pc = "first", !.chunks = chunks,
                               !.primary_section = PrimarySection(chunks)]
    /\ UNCHANGED <<split, seg, parsed, collection, srch, ix, veo>>

\* The first chat.completions.create answers with a text: it is stripped and
\* its narration counted; over 50 words the retry follows, else the script is
\* returned.
ExplainFirst ==
    /\ expl.pc = "first"
    /\ \E content \in Contents :
          LET script == StripLines(content)
              narration_count == count_narration_words(script)
          IN  expl' = IF narration_count > 50
                      THEN [expl EXCEPT !.pc = "retry", !.calls = @ + 1,
                                        !.script = script,
                                        !.narration_count = narration_count]
                      ELSE [expl EXCEPT !.pc = "returned", !.calls = @ + 1,
                                        !.script = script,
                                        !.narration_count = narration_count,
                                        !.result = Some(script)]
    /\ UNCHANGED <<split, seg, parsed, collection, srch, ix, veo>>

\* The first call raises, or answers with no content (None.strip() raises):
\* the except clause returns the fallback.
ExplainFirstFails ==
    /\ expl.pc = "first"
    /\ expl' = [expl EXCEPT !.pc = "returned", !.calls = @ + 1, !.failed = TRUE,
                            !.result = Some(FallbackScript(expl.primary_section))]
    /\ UNCHANGED <<split, seg, parsed, collection, srch, ix, veo>>

\* The shortening call answers with a text: it is stripped and returned.
ExplainRetry ==
    /\ expl.pc = "retry"
    /\ \E content \in Contents :
          LET script == StripLines(content)
          IN  expl' = [expl EXCEPT !.pc = "returned", !.calls = @ + 1,
                                   !.script = script, !.result = Some(script)]
    /\ UNCHANGED <<split, seg, parsed, collection, srch, ix, veo>>

\* The shortening call raises or answers with no content: the fallback.
ExplainRetryFails ==
    /\ expl.pc = "retry"
    /\ expl' = [expl EXCEPT !.pc = "returned", !.calls = @ + 1, !.failed = TRUE,
                            !.result = Some(FallbackScript(expl.primary_section))]
    /\ UNCHANGED <<split, seg, parsed, collection, srch, ix, veo>>

InitExplain ==
    /\ split = SplitIdle
    /\ seg = SegIdle
    /\ parsed = ParseIdle
    /\ collection = <<>>
    /\ srch = SearchIdle
    /\ ix = IndexIdle
    /\ veo = VeoIdle
    /\ expl = ExplainIdle

NextExplain ==
    \/ ExplainCall
    \/ ExplainFirst
    \/ ExplainFirstFails
    \/ ExplainRetry
    \/ ExplainRetryFails

SpecExplain == InitExplain /\ [][NextExplain]_vars

\* C25: generate_script never raises and always returns a non-empty script,
\* also for an empty chunk list; it calls the provider at most twice, the
\* second time only when the narration of the first response counts more than
\* 50 words, and a provider failure in either call yields the fixed fallback
\* script.
C25_AlwaysAScript ==
    /\ ~expl.raised
    /\ expl.calls <= 2
    /\ expl.calls = 2 => expl.narration_count > 50
    /\ expl.pc = "returned" =>
          /\ expl.result # None
          /\ expl.result[1] # <<>>
          /\ expl.failed => expl.result[1] = FallbackScript(expl.primary_section)

====
